---- MODULE Spec2Model ----
(***************************************************************************)
(* Model of github.com/mechiru/skadnetwork (skadnetwork.go).               *)
(*                                                                         *)
(* The source file holds two revisions of the package:                     *)
(*   - the per-version revision (lines 1-338): Params is an interface     *)
(*     implemented by Params2_1, Params2_2 and Params3_0, the postback is  *)
(*     canonicalized by toItems2_1 / toItems2_2 / toItems3_0, and the key  *)
(*     text holds two PEM blocks;                                          *)
(*   - the unified revision (lines 339-604): Params is one struct with a   *)
(*     Version field, the postback is canonicalized by one toItems, and    *)
(*     the key text holds one PEM block. The tests and the README use it.  *)
(* The variable rev says which revision the process was built from.        *)
(*                                                                         *)
(* Go strings are sequences of one-character strings, so that joining,     *)
(* number formatting and the separator are computed as the code computes   *)
(* them. A nil pointer is the empty sequence <<>>, a pointer to v is <<v>>. *)
(*                                                                         *)
(* Cryptography is idealised: a private key is a number d, its public key  *)
(* is PublicOf(d), SHA-256 is collision free and an ECDSA signature is     *)
(* bound to the private key and the digest it was made for. The entropy    *)
(* source crypto/rand.Reader is taken to be available.                     *)
(***************************************************************************)
EXTENDS Integers, Sequences, FiniteSets, TLC

VARIABLES rev, pubV3, signer, held, last, input, calls

vars == <<rev, pubV3, signer, held, last, input, calls>>

----------------------------------------------------------------------------
(* Bounds of the model. *)

\* ids (campaign, product, app, source app) range over 0..MaxID
MaxID == 1
\* private keys a caller can own are 1..NumKeys
NumKeys == 2
\* per-signature random values are 1..MaxRand
MaxRand == 2
\* a key text holds at most MaxBlocks pieces (PEM blocks or other bytes)
MaxBlocks == 3
\* the goroutines that share one Signer are 1..NumGoroutines
NumGoroutines == 2

----------------------------------------------------------------------------
(* Strings and the conversions of strconv, uuid and time. *)

NULL == <<>>

Ref(v) == <<v>>

Deref(ptr) == ptr[1]

separator == <<"U+2063">>

DecimalDigit(d) == <<"0", "1", "2", "3", "4", "5", "6", "7", "8", "9">>[d + 1]

RECURSIVE Digits(_)
Digits(n) ==
    IF n < 10 THEN <<DecimalDigit(n)>>
    ELSE Digits(n \div 10) \o <<DecimalDigit(n % 10)>>

FormatInt(n) == IF n < 0 THEN <<"-">> \o Digits(0 - n) ELSE Digits(n)

Itoa(n) == FormatInt(n)

FormatBool(b) == IF b THEN <<"t", "r", "u", "e">> ELSE <<"f", "a", "l", "s", "e">>

FidelityTypeString(f) == FormatInt(f)

SKRenderedAds == 1

ViewThroughAds == 0

HexDigit(d) ==
    <<"0", "1", "2", "3", "4", "5", "6", "7",
      "8", "9", "a", "b", "c", "d", "e", "f">>[d + 1]

HexByte(b) == <<HexDigit(b \div 16), HexDigit(b % 16)>>

RECURSIVE HexBytes(_)
HexBytes(bs) ==
    IF bs = <<>> THEN <<>> ELSE HexByte(Head(bs)) \o HexBytes(Tail(bs))

\* uuid.UUID.String: 8-4-4-4-12 lower-case hexadecimal digits
UUIDString(u) ==
    HexBytes(SubSeq(u, 1, 4)) \o <<"-">> \o
    HexBytes(SubSeq(u, 5, 6)) \o <<"-">> \o
    HexBytes(SubSeq(u, 7, 8)) \o <<"-">> \o
    HexBytes(SubSeq(u, 9, 10)) \o <<"-">> \o
    HexBytes(SubSeq(u, 11, 16))

\* time.Time.UnixMilli of an instant [sec, nsec] at or after the epoch
UnixMilli(t) == t.sec * 1000 + t.nsec \div 1000000

\* strings.Join
RECURSIVE Join(_, _)
Join(items, sep) ==
    IF items = <<>> THEN <<>>
    ELSE IF Len(items) = 1 THEN items[1]
    ELSE items[1] \o sep \o Join(Tail(items), sep)

----------------------------------------------------------------------------
(* Keys, digests and signatures. *)

\* the private key of the attribution authority; no caller owns it
AuthorityD == 0

PublicOf(d) == [Q |-> d]

\* sha256.Sum256 over the bytes of msg
hash(msg) == [sha256 |-> msg]

\* ecdsa.SignASN1: a DER signature by private key d over digest h with
\* the random value k
SignASN1(k, d, h) == [asn1 |-> TRUE, d |-> d, h |-> h, k |-> k]

\* bytes that are no DER signature
NotDER == [asn1 |-> FALSE, d |-> 0, h |-> hash(<<>>), k |-> 0]

\* VerifyASN1 as it would be if the signature were not bound to the key
VerifyASN1_IgnoresKey(pub, h, der) ==
    /\ der.asn1
    /\ der.h = h

\* ecdsa.VerifyASN1
VerifyASN1(pub, h, der) ==
    /\ der.asn1
    /\ PublicOf(der.d) = pub
    /\ der.h = h

\* base64.StdEncoding.EncodeToString
EncodeToString(der) == [b64 |-> TRUE, bytes |-> der]

\* a string that is not standard base64
NotBase64 == [b64 |-> FALSE, bytes |-> NotDER]

\* base64.StdEncoding.DecodeString
DecodeString(s) ==
    IF s.b64 THEN [der |-> s.bytes, err |-> FALSE]
    ELSE [der |-> NotDER, err |-> TRUE]

----------------------------------------------------------------------------
(* Version tags. *)

VNone == <<>>

V1_0 == <<"1", ".", "0">>

V2_0 == <<"2", ".", "0">>

V2_1 == <<"2", ".", "1">>

V2_2 == <<"2", ".", "2">>

V3_0 == <<"3", ".", "0">>

PerVersion == "per-version"

Unified == "unified"

----------------------------------------------------------------------------
(* Canonicalization of signing parameters.                                 *)
(* A parameter set is a record [Version, AdNetworkID, CampaignID,          *)
(* ItunesItemID, Nonce, SourceAppStoreID, FidelityType, Timestamp]; in the *)
(* per-version revision Version stands for the Go type of the value.       *)

params2_0_toItems(p) ==
    << V2_0,
       p.AdNetworkID,
       Itoa(p.CampaignID),
       FormatInt(p.ItunesItemID),
       UUIDString(p.Nonce),
       FormatInt(p.SourceAppStoreID),
       FormatInt(UnixMilli(p.Timestamp)) >>

Params2_1_toItems(p) == [params2_0_toItems(p) EXCEPT ![1] = V2_1]

Params2_2_toItems(p) ==
    << V2_2,
       p.AdNetworkID,
       Itoa(p.CampaignID),
       FormatInt(p.ItunesItemID),
       UUIDString(p.Nonce),
       FormatInt(p.SourceAppStoreID),
       FidelityTypeString(p.FidelityType),
       FormatInt(UnixMilli(p.Timestamp)) >>

Params3_0_toItems(p) == [Params2_2_toItems(p) EXCEPT ![1] = V3_0]

\* Params.toItems as it would be if the fidelity item were appended for
\* every version
Params_toItems_AlwaysFidelity(p) ==
    << p.Version,
       p.AdNetworkID,
       Itoa(p.CampaignID),
       FormatInt(p.ItunesItemID),
       UUIDString(p.Nonce),
       FormatInt(p.SourceAppStoreID),
       FidelityTypeString(p.FidelityType),
       FormatInt(UnixMilli(p.Timestamp)) >>

\* Params.toItems as it would be if a zero fidelity were left out, the way
\* the omitempty tag of the field leaves it out of the JSON form
Params_toItems_OmitsZeroFidelity(p) ==
    LET items1 == << p.Version,
                     p.AdNetworkID,
                     Itoa(p.CampaignID),
                     FormatInt(p.ItunesItemID),
                     UUIDString(p.Nonce),
                     FormatInt(p.SourceAppStoreID) >>
        items2 == IF p.Version \in {V2_2, V3_0} /\ p.FidelityType # 0
                  THEN Append(items1, FidelityTypeString(p.FidelityType))
                  ELSE items1
    IN  Append(items2, FormatInt(UnixMilli(p.Timestamp)))

\* the unified revision: one struct, the version is a field
Params_toItems(p) ==
    LET items1 == << p.Version,
                     p.AdNetworkID,
                     Itoa(p.CampaignID),
                     FormatInt(p.ItunesItemID),
                     UUIDString(p.Nonce),
                     FormatInt(p.SourceAppStoreID) >>
        items2 == IF p.Version \in {V2_2, V3_0}
                  THEN Append(items1, FidelityTypeString(p.FidelityType))
                  ELSE items1
    IN  Append(items2, FormatInt(UnixMilli(p.Timestamp)))

\* p.toItems() as the call sites of Sign and Signer.Verify resolve it
toItems(rv, p) ==
    IF rv = Unified THEN Params_toItems(p)
    ELSE CASE p.Version = V2_1 -> Params2_1_toItems(p)
           [] p.Version = V2_2 -> Params2_2_toItems(p)
           [] p.Version = V3_0 -> Params3_0_toItems(p)
           [] OTHER -> params2_0_toItems(p)

----------------------------------------------------------------------------
(* Canonicalization of postbacks.                                          *)
(* A postback is a record [Version, AdNetworkID, TransactionID,            *)
(* CampaignID, AppID, AttributionSignature, Redownload, SourceAppID,       *)
(* FidelityType, ConversionValue, DidWin]; the last five are pointers.     *)
(* The result is [panic, items]: dereferencing a nil pointer panics.       *)

NilDereference == [panic |-> TRUE, items |-> <<>>]

Items(its) == [panic |-> FALSE, items |-> its]

\* the first items as they would be if the campaign id were left out
PostbackHead_NoCampaign(version, p) ==
    << version,
       p.AdNetworkID,
       FormatInt(p.AppID),
       p.TransactionID,
       FormatBool(Deref(p.Redownload)) >>

PostbackHead(version, p) ==
    << version,
       p.AdNetworkID,
       Itoa(p.CampaignID),
       FormatInt(p.AppID),
       p.TransactionID,
       FormatBool(Deref(p.Redownload)) >>

\* the source-app id step as it would be if an absent id left an empty item
WithSourceAppID_Placeholder(ret, p) ==
    IF p.SourceAppID # NULL
    THEN Append(ret, FormatInt(Deref(p.SourceAppID)))
    ELSE Append(ret, <<>>)

WithSourceAppID(ret, p) ==
    IF p.SourceAppID # NULL
    THEN Append(ret, FormatInt(Deref(p.SourceAppID)))
    ELSE ret

Postback_toItems2_1(p) ==
    IF p.Redownload = NULL THEN NilDereference
    ELSE Items(WithSourceAppID(PostbackHead(V2_1, p), p))

Postback_toItems2_2(p) ==
    IF p.Redownload = NULL THEN NilDereference
    ELSE IF p.FidelityType = NULL THEN NilDereference
    ELSE Items(Append(WithSourceAppID(PostbackHead(V2_2, p), p),
                      FidelityTypeString(Deref(p.FidelityType))))

Postback_toItems3_0(p) ==
    IF p.Redownload = NULL THEN NilDereference
    ELSE IF p.FidelityType = NULL THEN NilDereference
    ELSE IF p.DidWin = NULL THEN NilDereference
    ELSE Items(WithSourceAppID(PostbackHead(V3_0, p), p)
               \o << FidelityTypeString(Deref(p.FidelityType)),
                     FormatBool(Deref(p.DidWin)) >>)

\* the unified revision
\* the items as they would be if the conversion value were signed
Postback_toItems_WithConversion(p) ==
    IF p.Redownload = NULL THEN NilDereference
    ELSE LET head == WithSourceAppID(PostbackHead(p.Version, p), p)
             ret == IF p.ConversionValue = NULL THEN head
                    ELSE Append(head, FormatInt(Deref(p.ConversionValue)))
         IN  CASE p.Version = V2_2 ->
                    IF p.FidelityType = NULL THEN NilDereference
                    ELSE Items(Append(ret, FidelityTypeString(Deref(p.FidelityType))))
               [] p.Version = V3_0 ->
                    IF p.FidelityType = NULL THEN NilDereference
                    ELSE IF p.DidWin = NULL THEN NilDereference
                    ELSE Items(ret \o << FidelityTypeString(Deref(p.FidelityType)),
                                         FormatBool(Deref(p.DidWin)) >>)
               [] OTHER -> Items(ret)

Postback_toItems(p) ==
    IF p.Redownload = NULL THEN NilDereference
    ELSE LET ret == WithSourceAppID(PostbackHead(p.Version, p), p)
         IN  CASE p.Version = V2_2 ->
                    IF p.FidelityType = NULL THEN NilDereference
                    ELSE Items(Append(ret, FidelityTypeString(Deref(p.FidelityType))))
               [] p.Version = V3_0 ->
                    IF p.FidelityType = NULL THEN NilDereference
                    ELSE IF p.DidWin = NULL THEN NilDereference
                    ELSE Items(ret \o << FidelityTypeString(Deref(p.FidelityType)),
                                         FormatBool(Deref(p.DidWin)) >>)
               [] OTHER -> Items(ret)

----------------------------------------------------------------------------
(* Verification.                                                           *)
(* A result is [ok, err, panic, items, key]: the boolean and the error the *)
(* call returns, whether it panicked instead of returning, and two         *)
(* observations, the item sequence that was joined into the message and    *)
(* the public key the signature was checked against (<<>> when the call    *)
(* did not get that far).                                                  *)

ErrNil == "nil"

ErrSignatureDecode == "skadnetwork: signature decode error"

ErrUnsupportedVersion == "skadnetwork: unsupported version error"

ErrPemDecode == "skadnetwork: pem data decode error"

Panicked == [ok |-> FALSE, err |-> ErrNil, panic |-> TRUE, items |-> <<>>, key |-> <<>>]

\* verify as it would be if the items were joined without the separator
verify_NoSeparator(key, items, sig) ==
    LET dec == DecodeString(sig)
    IN  IF dec.err
        THEN [ok |-> FALSE, err |-> ErrSignatureDecode, panic |-> FALSE,
              items |-> <<>>, key |-> <<>>]
        ELSE [ok |-> VerifyASN1(key, hash(Join(items, <<>>)), dec.der),
              err |-> ErrNil, panic |-> FALSE,
              items |-> Ref(items), key |-> Ref(key)]

\* verify as it would be if the decode error were dropped
verify_DropsDecodeError(key, items, sig) ==
    LET dec == DecodeString(sig)
    IN  [ok |-> VerifyASN1(key, hash(Join(items, separator)), dec.der),
         err |-> ErrNil, panic |-> FALSE,
         items |-> Ref(items), key |-> Ref(key)]

verify(key, items, sig) ==
    LET dec == DecodeString(sig)
    IN  IF dec.err
        THEN [ok |-> FALSE, err |-> ErrSignatureDecode, panic |-> FALSE,
              items |-> <<>>, key |-> <<>>]
        ELSE [ok |-> VerifyASN1(key, hash(Join(items, separator)), dec.der),
              err |-> ErrNil, panic |-> FALSE,
              items |-> Ref(items), key |-> Ref(key)]

UnsupportedVersion ==
    [ok |-> FALSE, err |-> ErrUnsupportedVersion, panic |-> FALSE,
     items |-> <<>>, key |-> <<>>]

\* the arguments of verify are evaluated before it is called, so a panic
\* in toItems comes before the signature is decoded
VerifyItems(key, its, sig) ==
    IF its.panic THEN Panicked ELSE verify(key, its.items, sig)

\* Postback.verify of the per-version revision
Postback_verify1(authority, p) ==
    CASE p.Version = V2_1 ->
           VerifyItems(authority, Postback_toItems2_1(p), p.AttributionSignature)
      [] p.Version = V2_2 ->
           VerifyItems(authority, Postback_toItems2_2(p), p.AttributionSignature)
      [] p.Version = V3_0 ->
           VerifyItems(authority, Postback_toItems3_0(p), p.AttributionSignature)
      [] OTHER -> UnsupportedVersion

\* Postback.verify as it would be without the default branch
Postback_verify2_NoDefault(authority, p) ==
    VerifyItems(authority, Postback_toItems(p), p.AttributionSignature)

\* Postback.verify of the unified revision
Postback_verify2(authority, p) ==
    IF p.Version \in {V2_1, V2_2, V3_0}
    THEN VerifyItems(authority, Postback_toItems(p), p.AttributionSignature)
    ELSE UnsupportedVersion

\* Verify(p Postback)
Verify(rv, authority, p) ==
    IF rv = Unified THEN Postback_verify2(authority, p)
    ELSE Postback_verify1(authority, p)

----------------------------------------------------------------------------
(* The Signer. A Signer is its key, a record [D, PublicKey].               *)

Signer_sign(s, msg, k) == EncodeToString(SignASN1(k, s.D, hash(msg)))

\* Signer.Sign, with the random value k that SignASN1 draws
Signer_Sign(rv, s, p, k) == Signer_sign(s, Join(toItems(rv, p), separator), k)

\* Signer.Verify as it would be with the version switch of Postback.verify
Signer_Verify_Gated(rv, s, p, sig) ==
    IF p.Version \in {V2_1, V2_2, V3_0}
    THEN verify(s.PublicKey, toItems(rv, p), sig)
    ELSE UnsupportedVersion

Signer_Verify(rv, s, p, sig) == verify(s.PublicKey, toItems(rv, p), sig)

----------------------------------------------------------------------------
(* Key text.                                                               *)
(* A key text is a sequence of pieces: a PEM block [block |-> TRUE, Type,  *)
(* Bytes] or bytes that are no PEM block. Bytes are [form, d]: an EC       *)
(* private key (SEC 1) with scalar d, a PKIX public key of the EC key d, a *)
(* PKIX public key of another algorithm, or bytes that parse as nothing.   *)

ECPrivateKeyLabel == "EC PRIVATE KEY"

PublicKeyLabel == "PUBLIC KEY"

OtherBytes == [block |-> FALSE, Type |-> "", Bytes |-> [form |-> "none", d |-> 0]]

Block(type, bytes) == [block |-> TRUE, Type |-> type, Bytes |-> bytes]

\* pem.Decode: the first block of the text and what follows it; bytes in
\* front of the block are skipped. No block: found is FALSE.
RECURSIVE pemDecode(_)
pemDecode(rest) ==
    IF rest = <<>> THEN [found |-> FALSE, block |-> OtherBytes, rest |-> <<>>]
    ELSE IF Head(rest).block
         THEN [found |-> TRUE, block |-> Head(rest), rest |-> Tail(rest)]
         ELSE LET r == pemDecode(Tail(rest))
              IN  IF r.found THEN r
                  ELSE [found |-> FALSE, block |-> OtherBytes, rest |-> rest]

\* x509.ParseECPrivateKey: the public key is computed from the scalar
ParseECPrivateKey(bytes) ==
    IF bytes.form = "ecpriv"
    THEN [err |-> FALSE, key |-> Ref([D |-> bytes.d, PublicKey |-> PublicOf(bytes.d)])]
    ELSE [err |-> TRUE, key |-> NULL]

\* parseECDSAPublicKey on the bytes of a block: x509.ParsePKIXPublicKey
\* followed by the type assertion pub.(*ecdsa.PublicKey), which panics on
\* a public key of another algorithm
parseECDSAPublicKey(bytes) ==
    CASE bytes.form = "pkix-ec" ->
           [err |-> FALSE, panic |-> FALSE, pub |-> Ref(PublicOf(bytes.d))]
      [] bytes.form = "pkix-other" ->
           [err |-> FALSE, panic |-> TRUE, pub |-> NULL]
      [] OTHER ->
           [err |-> TRUE, panic |-> FALSE, pub |-> NULL]

\* A result of decodePEM is [key, err, panic]: key is <<>> (nil) unless the
\* call succeeded.
DecodeFailed == [key |-> NULL, err |-> TRUE, panic |-> FALSE]

DecodePanicked == [key |-> NULL, err |-> FALSE, panic |-> TRUE]

\* one iteration of the loop over the two blocks; acc is [key, pub, done]
\* and done is <<>> until the loop returns
ParseBlockStep(acc, block) ==
    IF acc.done # <<>> THEN acc
    ELSE CASE block.Type = ECPrivateKeyLabel ->
                LET r == ParseECPrivateKey(block.Bytes)
                IN  IF r.err THEN [acc EXCEPT !.done = Ref(DecodeFailed)]
                    ELSE [acc EXCEPT !.key = r.key]
           [] block.Type = PublicKeyLabel ->
                LET r == parseECDSAPublicKey(block.Bytes)
                IN  IF r.panic THEN [acc EXCEPT !.done = Ref(DecodePanicked)]
                    ELSE IF r.err THEN [acc EXCEPT !.done = Ref(DecodeFailed)]
                    ELSE [acc EXCEPT !.pub = r.pub]
           [] OTHER -> [acc EXCEPT !.done = Ref(DecodeFailed)]

\* decodePEM of the per-version revision: two blocks
decodePEM1(data) ==
    LET b1 == pemDecode(data)
        b2 == pemDecode(b1.rest)
    IN  IF ~b1.found THEN DecodeFailed
        ELSE IF ~b2.found THEN DecodeFailed
        ELSE IF b2.rest # <<>> THEN DecodeFailed
        ELSE LET a0 == [key |-> NULL, pub |-> NULL, done |-> <<>>]
                 a1 == ParseBlockStep(a0, b1.block)
                 a2 == ParseBlockStep(a1, b2.block)
             IN  IF a2.done # <<>> THEN Deref(a2.done)
                 ELSE IF a2.key = NULL \/ a2.pub = NULL THEN DecodeFailed
                 ELSE [key |-> Ref([D |-> Deref(a2.key).D,
                                    PublicKey |-> Deref(a2.pub)]),
                       err |-> FALSE, panic |-> FALSE]

\* decodePEM as it would be without the check of the remaining bytes
decodePEM2_IgnoresRest(data) ==
    LET b == pemDecode(data)
    IN  IF ~b.found THEN DecodeFailed
        ELSE IF b.block.Type # ECPrivateKeyLabel THEN DecodeFailed
        ELSE LET r == ParseECPrivateKey(b.block.Bytes)
             IN  IF r.err THEN DecodeFailed
                 ELSE [key |-> r.key, err |-> FALSE, panic |-> FALSE]

\* decodePEM of the unified revision: one block
decodePEM2(data) ==
    LET b == pemDecode(data)
    IN  IF ~b.found THEN DecodeFailed
        ELSE IF b.rest # <<>> THEN DecodeFailed
        ELSE IF b.block.Type # ECPrivateKeyLabel THEN DecodeFailed
        ELSE LET r == ParseECPrivateKey(b.block.Bytes)
             IN  IF r.err THEN DecodeFailed
                 ELSE [key |-> r.key, err |-> FALSE, panic |-> FALSE]

decodePEM(rv, data) == IF rv = Unified THEN decodePEM2(data) ELSE decodePEM1(data)

\* NewSigner: [signer, err, panic]; signer is <<>> (nil) on failure
NewSigner(rv, pem) ==
    LET r == decodePEM(rv, pem)
    IN  IF r.panic THEN [signer |-> NULL, err |-> ErrNil, panic |-> TRUE]
        ELSE IF r.err THEN [signer |-> NULL, err |-> ErrPemDecode, panic |-> FALSE]
        ELSE [signer |-> r.key, err |-> ErrNil, panic |-> FALSE]

----------------------------------------------------------------------------
(* Inputs. *)

Revisions == {PerVersion, Unified}

SupportedVersions == {V2_1, V2_2, V3_0}

\* the version tags a caller can put in a record: any string
AnyVersions == {VNone, V1_0, V2_0, V2_1, V2_2, V3_0}

\* the version of a parameter set is a string field in the unified
\* revision and one of the three exported types in the per-version one
ParamsVersions(rv) == IF rv = Unified THEN AnyVersions ELSE SupportedVersions

IDs == 0..MaxID

\* 68483ef6-0ada-40df-ab6b-3d19a66330fa
Nonce1 == <<104, 72, 62, 246, 10, 218, 64, 223, 171, 107, 61, 25, 166, 99, 48, 250>>

Nonce2 == <<0, 0, 0, 0, 0, 0, 0, 0, 0, 0, 0, 0, 0, 0, 0, 15>>

Instant(s, ns) == [sec |-> s, nsec |-> ns]

Fidelities == {ViewThroughAds, SKRenderedAds}

BaseParams(v, f) ==
    [Version |-> v, AdNetworkID |-> <<"n">>, CampaignID |-> 0,
     ItunesItemID |-> 0, Nonce |-> Nonce1, SourceAppStoreID |-> 0,
     FidelityType |-> f, Timestamp |-> Instant(0, 0)]

\* the parameter sets that differ from b in at most one field
Variations(b) ==
    {b, [b EXCEPT !.AdNetworkID = <<"m">>],
        [b EXCEPT !.CampaignID = 0 - 1],
        [b EXCEPT !.ItunesItemID = 42],
        [b EXCEPT !.Nonce = Nonce2],
        [b EXCEPT !.Timestamp = Instant(0, 999999)],
        [b EXCEPT !.Timestamp = Instant(0, 1000000)],
        [b EXCEPT !.Timestamp = Instant(1, 0)]}
    \cup {[b EXCEPT !.CampaignID = c] : c \in IDs}
    \cup {[b EXCEPT !.SourceAppStoreID = a] : a \in IDs}

ParamsAll(rv) ==
    UNION {Variations(BaseParams(v, f)) : v \in ParamsVersions(rv), f \in Fidelities}

ParamsSmall(rv) ==
    {[BaseParams(v, SKRenderedAds) EXCEPT !.CampaignID = c] :
        v \in ParamsVersions(rv) \cap {V2_0, V2_1, V3_0}, c \in {0, 1}}

\* a parameter set to sign and a parameter set to verify: the same one, or
\* two that differ in one field or in the version
ParamsPairs(rv) ==
    LET bases == {BaseParams(v, f) : v \in ParamsVersions(rv), f \in Fidelities}
        near(b) == Variations(b) \cup {[b EXCEPT !.Version = v] : v \in ParamsVersions(rv)}
                   \cup {[b EXCEPT !.FidelityType = f] : f \in Fidelities}
    IN  UNION {{[p |-> b, q |-> c] : c \in near(b)} : b \in bases}

UserKeys == 1..NumKeys

RandomValues == 1..MaxRand

\* a well formed signature that was not made for the message at hand
StrangerSignature == EncodeToString(SignASN1(1, 1, hash(<<"x">>)))

\* base64 text whose bytes are no DER signature
Base64NotDER == EncodeToString(NotDER)

\* the signature strings a caller can pass to Signer.Verify: the one it
\* holds from the last Sign, and strings from elsewhere
SignatureInputs(h) ==
    {NotBase64, Base64NotDER, StrangerSignature}
    \cup (IF h = NULL THEN {} ELSE {Deref(h).sig})

\* The attribution authority canonicalizes a postback by the rule of its
\* documentation and signs the message with its private key.
AuthorityItems(p) ==
    << p.Version, p.AdNetworkID, Itoa(p.CampaignID), FormatInt(p.AppID),
       p.TransactionID,
       IF p.Redownload = NULL THEN <<>> ELSE FormatBool(Deref(p.Redownload)) >>
    \o (IF p.SourceAppID = NULL THEN <<>> ELSE <<FormatInt(Deref(p.SourceAppID))>>)
    \o (IF p.Version \in {V2_2, V3_0} /\ p.FidelityType # NULL
        THEN <<FormatInt(Deref(p.FidelityType))>> ELSE <<>>)
    \o (IF p.Version = V3_0 /\ p.DidWin # NULL
        THEN <<FormatBool(Deref(p.DidWin))>> ELSE <<>>)

AuthoritySignature(p) ==
    EncodeToString(SignASN1(1, AuthorityD, hash(Join(AuthorityItems(p), separator))))

\* the same message signed by a caller's key instead
ImpostorSignature(p) ==
    EncodeToString(SignASN1(1, 1, hash(Join(AuthorityItems(p), separator))))

Optional(S) == {NULL} \cup {Ref(v) : v \in S}

PostbackFields(versions, campaigns, sources, conversions) ==
    [Version : versions, AdNetworkID : {<<"n">>}, TransactionID : {<<"t">>},
     CampaignID : campaigns, AppID : {42},
     Redownload : Optional(BOOLEAN), SourceAppID : Optional(sources),
     FidelityType : Optional(Fidelities), ConversionValue : Optional(conversions),
     DidWin : Optional(BOOLEAN)]

WithSignature(f, sig) ==
    [Version |-> f.Version, AdNetworkID |-> f.AdNetworkID,
     TransactionID |-> f.TransactionID, CampaignID |-> f.CampaignID,
     AppID |-> f.AppID, AttributionSignature |-> sig,
     Redownload |-> f.Redownload, SourceAppID |-> f.SourceAppID,
     FidelityType |-> f.FidelityType, ConversionValue |-> f.ConversionValue,
     DidWin |-> f.DidWin]

\* the signatures a received postback can carry: the authority's over this
\* record or over the record with another campaign, a caller's, and junk
PostbackSignatures(f) ==
    {AuthoritySignature(f),
     AuthoritySignature([f EXCEPT !.CampaignID = f.CampaignID + 1]),
     ImpostorSignature(f), Base64NotDER, NotBase64}

PostbacksOf(fields) ==
    UNION {{WithSignature(f, sig) : sig \in PostbackSignatures(f)} : f \in fields}

PostbacksAll == PostbacksOf(PostbackFields(AnyVersions, IDs, IDs, {0, 20}))

PostbacksSmall ==
    {p \in PostbacksOf(PostbackFields({V2_0, V2_1, V3_0}, {0}, {0}, {20})) :
        /\ p.ConversionValue # NULL
        /\ p.SourceAppID # NULL
        /\ p.FidelityType = Ref(SKRenderedAds)
        /\ p.Redownload # Ref(FALSE)
        /\ p.DidWin # Ref(FALSE)
        /\ p.AttributionSignature
             \in {AuthoritySignature(p), ImpostorSignature(p), NotBase64}}

\* key bytes
ECPrivateBytes(d) == [form |-> "ecpriv", d |-> d]

PKIXECBytes(d) == [form |-> "pkix-ec", d |-> d]

PKIXOtherBytes == [form |-> "pkix-other", d |-> 0]

BadBytes == [form |-> "bad", d |-> 0]

Pieces ==
    {OtherBytes, Block("CERTIFICATE", BadBytes),
     Block(ECPrivateKeyLabel, BadBytes), Block(PublicKeyLabel, PKIXOtherBytes)}
    \cup {Block(ECPrivateKeyLabel, ECPrivateBytes(d)) : d \in UserKeys}
    \cup {Block(PublicKeyLabel, PKIXECBytes(d)) : d \in UserKeys}

SeqsUpTo(S, n) == UNION {[1..m -> S] : m \in 0..n}

PemAll == SeqsUpTo(Pieces, MaxBlocks)

PemSmall ==
    {<<Block(ECPrivateKeyLabel, ECPrivateBytes(d))>> : d \in {1, 2}}
    \cup {<<Block(ECPrivateKeyLabel, ECPrivateBytes(d)),
            Block(PublicKeyLabel, PKIXECBytes(d))>> : d \in {1, 2}}
    \cup {<<Block(PublicKeyLabel, PKIXOtherBytes),
            Block(ECPrivateKeyLabel, ECPrivateBytes(1))>>}

----------------------------------------------------------------------------
(* The state machine.                                                      *)
(*   rev     the revision of the package the process runs                  *)
(*   pubV3   the package variable holding the authority's public key       *)
(*   signer  the Signer the caller holds: <<>> or <<key>>                  *)
(*   held    the signature the caller got from its last successful Sign,   *)
(*           with the parameters and the key it was made from, or <<>>     *)
(*   last    the last call: its name, its input and what it returned       *)
(*   input   the data the caller has at hand from the start, where a       *)
(*           specification fixes it; <<>> where every call picks its own   *)
(*   calls   the calls in flight in the goroutines that share the Signer,  *)
(*           one per goroutine; <<>> while no goroutine has been started   *)

NoCall == [op |-> "none", in |-> <<>>, sig |-> NotBase64, out |-> <<>>]

InitWith(inputs) ==
    /\ rev \in Revisions
    /\ pubV3 = PublicOf(AuthorityD)
    /\ signer = NULL
    /\ held = NULL
    /\ last = NoCall
    /\ input \in inputs
    /\ calls = <<>>

Init == InitWith({<<>>})

\* NewSigner as it would be if loading a key also replaced the package's
\* authority key
NewSignerCall_BindsAuthority(pem) ==
    LET r == NewSigner(rev, pem)
    IN  /\ signer' = IF r.signer # NULL THEN r.signer ELSE signer
        /\ pubV3' = IF r.signer # NULL THEN Deref(r.signer).PublicKey ELSE pubV3
        /\ last' = [op |-> "NewSigner", in |-> pem, sig |-> NotBase64, out |-> r]
        /\ UNCHANGED <<rev, held, input, calls>>

NewSignerCall(pem) ==
    LET r == NewSigner(rev, pem)
    IN  /\ signer' = IF r.signer # NULL THEN r.signer ELSE signer
        /\ last' = [op |-> "NewSigner", in |-> pem, sig |-> NotBase64, out |-> r]
        /\ UNCHANGED <<rev, pubV3, held, input, calls>>

SignCall(p, k) ==
    /\ signer # NULL
    /\ LET sig == Signer_Sign(rev, Deref(signer), p, k)
       IN  /\ held' = Ref([sig |-> sig, p |-> p, by |-> Deref(signer)])
           /\ last' = [op |-> "Sign", in |-> p, sig |-> sig,
                       out |-> [err |-> ErrNil, key |-> Deref(signer)]]
    /\ UNCHANGED <<rev, pubV3, signer, input, calls>>

SignerVerifyCall(p, sig) ==
    /\ signer # NULL
    /\ last' = [op |-> "Signer.Verify", in |-> p, sig |-> sig,
                out |-> Signer_Verify(rev, Deref(signer), p, sig)]
    /\ UNCHANGED <<rev, pubV3, signer, held, input, calls>>

VerifyCall(p) ==
    /\ last' = [op |-> "Verify", in |-> p, sig |-> p.AttributionSignature,
                out |-> Verify(rev, pubV3, p)]
    /\ UNCHANGED <<rev, pubV3, signer, held, input, calls>>

\* any sequence of calls, each with an input of its own
NewSignerSmall == \E pem \in PemSmall : NewSignerCall(pem)

SignSmall == \E p \in ParamsSmall(rev), k \in {1, MaxRand} : SignCall(p, k)

SignerVerifySmall ==
    \E p \in ParamsSmall(rev), sig \in SignatureInputs(held) : SignerVerifyCall(p, sig)

VerifySmall == \E p \in PostbacksSmall : VerifyCall(p)

Next == NewSignerSmall \/ SignSmall \/ SignerVerifySmall \/ VerifySmall

Spec == Init /\ [][Next]_vars

\* signing and verifying, over every pair of parameter sets
InitParams == \E rv \in Revisions : rev = rv /\ InitWith(ParamsPairs(rv))

NewSignerPair == \E pem \in PemSmall : NewSignerCall(pem)

SignPair == \E p \in {input.p, input.q}, k \in RandomValues : SignCall(p, k)

SignerVerifyPair ==
    \E p \in {input.p, input.q}, sig \in SignatureInputs(held) : SignerVerifyCall(p, sig)

NextParams == NewSignerPair \/ SignPair \/ SignerVerifyPair

SpecParams == InitParams /\ [][NextParams]_vars

\* A composite literal of the parameters: a field the literal leaves out
\* (<<>>) gets the zero value of its type, 0 for FidelityType.
NewParams(lit) ==
    [Version |-> lit.Version, AdNetworkID |-> lit.AdNetworkID,
     CampaignID |-> lit.CampaignID, ItunesItemID |-> lit.ItunesItemID,
     Nonce |-> lit.Nonce, SourceAppStoreID |-> lit.SourceAppStoreID,
     FidelityType |-> IF lit.FidelityType = NULL THEN 0 ELSE Deref(lit.FidelityType),
     Timestamp |-> lit.Timestamp]

\* the literals that leave the fidelity out
UnsetLiterals(rv) ==
    {[b EXCEPT !.FidelityType = NULL] :
        b \in UNION {Variations(BaseParams(v, ViewThroughAds)) :
                        v \in ParamsVersions(rv) \cap {V2_1, V2_2, V3_0}}}

\* signing and verifying parameters whose fidelity was never set (p) and
\* the same parameters with the fidelity set to f (q)
InitUnset ==
    \E rv \in Revisions :
        /\ rev = rv
        /\ InitWith({[unset |-> lit, f |-> f, p |-> NewParams(lit),
                      q |-> NewParams([lit EXCEPT !.FidelityType = Ref(f)])] :
                        lit \in UnsetLiterals(rv), f \in Fidelities})

SpecUnset == InitUnset /\ [][NextParams]_vars

\* verifying a received postback, over every postback
InitPostback == InitWith(PostbacksAll)

VerifyReceived == VerifyCall(input)

NextPostback == VerifyReceived

SpecPostback == InitPostback /\ [][NextPostback]_vars

\* loading a key text, over every key text
InitLoad == InitWith(PemAll)

NewSignerText == NewSignerCall(input)

NextLoad == NewSignerText

SpecLoad == InitLoad /\ [][NextLoad]_vars

\* Two records canonicalized side by side, over pairs of postbacks and
\* pairs of parameter sets whose string fields may hold the separator.
CollidePostbacks ==
    {WithSignature(f, AuthoritySignature(f)) :
        f \in [Version : SupportedVersions,
               AdNetworkID : {<<"n">>, <<"n">> \o separator \o <<"0">>},
               TransactionID : {<<"t">>, <<"1">> \o separator \o <<"t">>},
               CampaignID : IDs, AppID : {1},
               Redownload : {Ref(TRUE)}, SourceAppID : Optional({0}),
               FidelityType : {Ref(SKRenderedAds)},
               ConversionValue : Optional({20}), DidWin : {Ref(TRUE)}]}

CollideParams(rv) ==
    {[b EXCEPT !.Version = v, !.AdNetworkID = a, !.Timestamp = t] :
        b \in {BaseParams(V2_1, f) : f \in Fidelities},
        v \in IF rv = Unified THEN {V2_1, V2_1 \o separator \o <<"n">>, V2_2}
              ELSE {V2_1, V2_2},
        a \in {<<"n">>, <<"m">>, <<"n">> \o separator \o <<"m">>},
        t \in {Instant(0, 0), Instant(0, 999999), Instant(0, 1000000)}}

InitCollide ==
    \E rv \in Revisions :
        /\ rev = rv
        /\ InitWith({[kind |-> "postback", p |-> a, q |-> b] :
                        a \in CollidePostbacks, b \in CollidePostbacks}
                    \cup {[kind |-> "params", p |-> a, q |-> b] :
                        a \in CollideParams(rv), b \in CollideParams(rv)})

VerifyEither == input.kind = "postback" /\ \E p \in {input.p, input.q} : VerifyCall(p)

NewSignerFirst ==
    /\ input.kind = "params"
    /\ signer = NULL
    /\ \E pem \in PemSmall : NewSignerCall(pem)

SignerVerifyEither ==
    /\ input.kind = "params"
    /\ \E p \in {input.p, input.q} : SignerVerifyCall(p, Base64NotDER)

NextCollide == VerifyEither \/ NewSignerFirst \/ SignerVerifyEither

SpecCollide == InitCollide /\ [][NextCollide]_vars

\* loading a key text and then signing and verifying with the Signer it
\* gave, over every key text
NextKeys ==
    \/ NewSignerText
    \/ \E k \in RandomValues : SignCall(BaseParams(V2_2, SKRenderedAds), k)
    \/ \E sig \in SignatureInputs(held) :
         SignerVerifyCall(BaseParams(V2_2, SKRenderedAds), sig)

SpecKeys == InitLoad /\ [][NextKeys]_vars

----------------------------------------------------------------------------
(* Concurrent calls.                                                       *)
(* After NewSigner has returned, the caller starts one goroutine per task  *)
(* of input; every goroutine makes one call and the calls run interleaved, *)
(* one statement at a time. A call in flight is [pc, items, key, der, out, *)
(* overlapped]: its position, its local variables (key is the pointer it   *)
(* passes to verify, "s.key" or "pubV3"), what it returned, and whether    *)
(* another call was in flight at one of its steps. An unrecovered panic    *)
(* ends the process: no goroutine takes a step after it.                   *)

Goroutines == 1..NumGoroutines

SharedParams == BaseParams(V2_2, SKRenderedAds)

SharedPostback ==
    LET f == [Version |-> V3_0, AdNetworkID |-> <<"n">>, TransactionID |-> <<"t">>,
              CampaignID |-> 0, AppID |-> 42, Redownload |-> Ref(TRUE),
              SourceAppID |-> NULL, FidelityType |-> Ref(SKRenderedAds),
              ConversionValue |-> NULL, DidWin |-> Ref(FALSE)]
    IN  WithSignature(f, AuthoritySignature(f))

Tasks(rv) ==
    {[op |-> "Sign", p |-> SharedParams, k |-> k, sig |-> NotBase64] : k \in {1, MaxRand}}
    \cup {[op |-> "Signer.Verify", p |-> SharedParams, k |-> 0, sig |-> sig] :
            sig \in {Signer_Sign(rv, [D |-> 1, PublicKey |-> PublicOf(1)], SharedParams, 1),
                     NotBase64}}
    \cup {[op |-> "Verify", p |-> p, k |-> 0, sig |-> p.AttributionSignature] :
            p \in {SharedPostback,
                   [SharedPostback EXCEPT !.Version = V2_0],
                   [SharedPostback EXCEPT !.Redownload = NULL]}}

NotStarted ==
    [pc |-> "start", items |-> <<>>, key |-> "", der |-> NotDER, out |-> <<>>,
     overlapped |-> FALSE]

InFlight(c) == c.pc \notin {"start", "done", "panic"}

Crashed == \E g \in Goroutines : calls[g].pc = "panic"

Running(g) == signer # NULL /\ calls # <<>> /\ ~Crashed

\* the step of goroutine g that leaves its call as c
Step(g, c) ==
    /\ calls' = [calls EXCEPT
                   ![g] = [c EXCEPT !.overlapped =
                             @ \/ \E h \in Goroutines \ {g} : InFlight(calls[h])]]
    /\ UNCHANGED <<rev, pubV3, signer, held, last, input>>

\* the value behind the key pointer of a call
KeyAt(ptr) == IF ptr = "pubV3" THEN pubV3 ELSE Deref(signer).PublicKey

InitShared == \E rv \in Revisions : rev = rv /\ InitWith([Goroutines -> Tasks(rv)])

NewSignerOnce == signer = NULL /\ \E pem \in PemSmall : NewSignerCall(pem)

\* the go statements
Go ==
    /\ signer # NULL
    /\ calls = <<>>
    /\ calls' = [g \in Goroutines |-> NotStarted]
    /\ UNCHANGED <<rev, pubV3, signer, held, last, input>>

\* Signer.Sign: msg := strings.Join(p.toItems(), separator)
SignJoin(g) ==
    /\ Running(g)
    /\ input[g].op = "Sign"
    /\ calls[g].pc = "start"
    /\ Step(g, [calls[g] EXCEPT !.pc = "joined", !.items = toItems(rev, input[g].p)])

\* the signing step as it would be if it wrote the public key of the
\* shared Signer while signing
SignDigest_RebindsKey(g) ==
    /\ Running(g)
    /\ calls[g].pc = "joined"
    /\ calls' = [calls EXCEPT
                   ![g] = [calls[g] EXCEPT
                             !.pc = "signed",
                             !.der = SignASN1(input[g].k, Deref(signer).D,
                                              hash(Join(calls[g].items, separator))),
                             !.overlapped =
                                @ \/ \E h \in Goroutines \ {g} : InFlight(calls[h])]]
    /\ signer' = Ref([Deref(signer) EXCEPT !.PublicKey = PublicOf(AuthorityD)])
    /\ UNCHANGED <<rev, pubV3, held, last, input>>

\* Signer.sign: SignASN1 reads s.key and draws from rand.Reader
SignDigest(g) ==
    /\ Running(g)
    /\ calls[g].pc = "joined"
    /\ Step(g, [calls[g] EXCEPT
                  !.pc = "signed",
                  !.der = SignASN1(input[g].k, Deref(signer).D,
                                   hash(Join(calls[g].items, separator)))])

\* Signer.sign: return base64.StdEncoding.EncodeToString(der), nil
SignReturn(g) ==
    /\ Running(g)
    /\ calls[g].pc = "signed"
    /\ Step(g, [calls[g] EXCEPT !.pc = "done", !.out = EncodeToString(calls[g].der)])

\* Signer.Verify: the arguments &s.key.PublicKey and p.toItems()
SignerVerifyArgs(g) ==
    /\ Running(g)
    /\ input[g].op = "Signer.Verify"
    /\ calls[g].pc = "start"
    /\ Step(g, [calls[g] EXCEPT !.pc = "items", !.key = "s.key",
                                !.items = toItems(rev, input[g].p)])

\* Postback.verify: the version switch, and the arguments pubV3 and
\* p.toItems() of the supported branch
PostbackVerifyArgs(g) ==
    /\ Running(g)
    /\ input[g].op = "Verify"
    /\ calls[g].pc = "start"
    /\ LET p == input[g].p
           its == IF rev = Unified THEN Postback_toItems(p)
                  ELSE CASE p.Version = V2_1 -> Postback_toItems2_1(p)
                         [] p.Version = V2_2 -> Postback_toItems2_2(p)
                         [] OTHER -> Postback_toItems3_0(p)
       IN  IF p.Version \notin {V2_1, V2_2, V3_0}
           THEN Step(g, [calls[g] EXCEPT !.pc = "done", !.out = UnsupportedVersion])
           ELSE IF its.panic
           THEN Step(g, [calls[g] EXCEPT !.pc = "panic", !.out = Panicked])
           ELSE Step(g, [calls[g] EXCEPT !.pc = "items", !.key = "pubV3",
                                         !.items = its.items])

\* verify: der, err := base64.StdEncoding.DecodeString(sig)
VerifyDecode(g) ==
    /\ Running(g)
    /\ calls[g].pc = "items"
    /\ LET dec == DecodeString(input[g].sig)
       IN  IF dec.err
           THEN Step(g, [calls[g] EXCEPT
                           !.pc = "done",
                           !.out = [ok |-> FALSE, err |-> ErrSignatureDecode,
                                    panic |-> FALSE, items |-> <<>>, key |-> <<>>]])
           ELSE Step(g, [calls[g] EXCEPT !.pc = "decoded", !.der = dec.der])

\* verify: join, hash, and ecdsa.VerifyASN1, which reads the key
VerifyCheck(g) ==
    /\ Running(g)
    /\ calls[g].pc = "decoded"
    /\ LET key == KeyAt(calls[g].key)
       IN  Step(g, [calls[g] EXCEPT
                      !.pc = "done",
                      !.out = [ok |-> VerifyASN1(key, hash(Join(calls[g].items, separator)),
                                                 calls[g].der),
                               err |-> ErrNil, panic |-> FALSE,
                               items |-> Ref(calls[g].items), key |-> Ref(key)]])

SignSteps == \E g \in Goroutines : SignJoin(g) \/ SignDigest(g) \/ SignReturn(g)

VerifySteps ==
    \E g \in Goroutines :
        SignerVerifyArgs(g) \/ PostbackVerifyArgs(g) \/ VerifyDecode(g) \/ VerifyCheck(g)

NextShared == NewSignerOnce \/ Go \/ SignSteps \/ VerifySteps

SpecShared == InitShared /\ [][NextShared]_vars

TypeOK ==
    /\ rev \in Revisions
    /\ last.op \in {"none", "NewSigner", "Sign", "Signer.Verify", "Verify"}

----------------------------------------------------------------------------
(* Properties. *)

IsSignerVerify == last.op = "Signer.Verify"

IsPostbackVerify == last.op = "Verify"

Message(items) == Join(items, separator)

\* a Signer whose public key is the one of its private key
ValidKey(s) == s.PublicKey = PublicOf(s.D)

\* the last call verified the held signature for the parameters it was
\* made from, with the Signer that made it
VerifiedOwnSignature ==
    /\ IsSignerVerify
    /\ held # NULL
    /\ last.sig = Deref(held).sig
    /\ last.in = Deref(held).p
    /\ Deref(signer) = Deref(held).by

\* C1: Round trip. Sign returns a signature and no error, and Signer.Verify
\* of the same parameters and that signature on the same Signer, built
\* from a valid key, returns true and no error, whatever random value the
\* signature was made with.
C1_RoundTrip ==
    /\ last.op = "Sign" => last.out.err = ErrNil /\ last.sig.b64
    /\ (VerifiedOwnSignature /\ ValidKey(Deref(signer)))
         => last.out.ok /\ last.out.err = ErrNil /\ ~last.out.panic

C1_Witness ==
    /\ VerifiedOwnSignature
    /\ ValidKey(Deref(signer))
    /\ last.in.Version = VNone
    /\ last.sig.bytes.k = MaxRand
    /\ last.out.ok

\* C2: Postback version gating. Verify of a postback whose version tag is
\* not 2.1, 2.2 or 3.0 returns false and the unsupported-version error: it
\* builds no item sequence, checks no signature, does not panic on absent
\* optional fields and never returns true.
C2_PostbackVersionGating ==
    (IsPostbackVerify /\ last.in.Version \notin SupportedVersions)
      => /\ ~last.out.ok
         /\ last.out.err = ErrUnsupportedVersion
         /\ ~last.out.panic
         /\ last.out.items = <<>>
         /\ last.out.key = <<>>

C2_Witness ==
    /\ IsPostbackVerify
    /\ last.in.Version = V2_0
    /\ last.in.Redownload = NULL
    /\ last.in.AttributionSignature = AuthoritySignature(last.in)
    /\ last.out.err = ErrUnsupportedVersion

RequiredFieldMissing(p) ==
    \/ p.Redownload = NULL
    \/ p.Version = V3_0 /\ p.DidWin = NULL

\* C4: Missing required postback field. Verify of a postback of a
\* supported version without its redownload flag, or of version 3.0
\* without its win flag, returns false with an error and does not crash.
C4_MissingFieldIsError ==
    (IsPostbackVerify /\ last.in.Version \in SupportedVersions
                      /\ RequiredFieldMissing(last.in))
      => /\ ~last.out.panic
         /\ last.out.err # ErrNil
         /\ ~last.out.ok

BlocksIn(text) == SelectSeq(text, LAMBDA x : x.block)

TrailingBytes(text) == text # <<>> /\ ~text[Len(text)].block

Labels(text) == {BlocksIn(text)[i].Type : i \in 1..Len(BlocksIn(text))}

LoadFailed == last.out.signer = NULL /\ last.out.err # ErrNil /\ ~last.out.panic

ExpectedParamsItems(p) ==
    << p.Version, p.AdNetworkID, FormatInt(p.CampaignID),
       FormatInt(p.ItunesItemID), UUIDString(p.Nonce),
       FormatInt(p.SourceAppStoreID) >>
    \o (IF p.Version = V2_2 \/ p.Version = V3_0
        THEN <<FormatInt(p.FidelityType)>> ELSE <<>>)
    \o <<FormatInt(UnixMilli(p.Timestamp))>>

\* C6: Signing-parameter canonicalization. The items are version,
\* ad-network id, campaign id, product id, nonce, source-app-store id, then
\* fidelity exactly for 2.2 and 3.0, then the timestamp in milliseconds:
\* 8 items for 2.2 and 3.0, 7 otherwise. Sign signs, and Signer.Verify
\* checks, the message joined from that sequence.
C6_ParamsItems ==
    /\ (IsSignerVerify /\ last.sig.b64)
         => /\ last.out.items = Ref(ExpectedParamsItems(last.in))
            /\ Len(Deref(last.out.items))
                 = (IF last.in.Version \in {V2_2, V3_0} THEN 8 ELSE 7)
    /\ last.op = "Sign"
         => last.sig.bytes.h = hash(Message(ExpectedParamsItems(last.in)))

C6_Witness ==
    /\ VerifiedOwnSignature
    /\ last.in.Version = V2_2
    /\ last.in.FidelityType = SKRenderedAds
    /\ Len(Deref(last.out.items)) = 8
    /\ Deref(last.out.items)[7] = <<"1">>
    /\ last.out.ok

RequiredFieldsPresent(p) ==
    /\ p.Redownload # NULL
    /\ p.Version \in {V2_2, V3_0} => p.FidelityType # NULL
    /\ p.Version = V3_0 => p.DidWin # NULL

\* the item sequence the protocol prescribes for a postback
ExpectedPostbackItems(p) ==
    << p.Version, p.AdNetworkID, FormatInt(p.CampaignID), FormatInt(p.AppID),
       p.TransactionID, FormatBool(Deref(p.Redownload)) >>
    \o (IF p.SourceAppID # NULL THEN <<FormatInt(Deref(p.SourceAppID))>> ELSE <<>>)
    \o (IF p.Version = V2_2 \/ p.Version = V3_0
        THEN <<FormatInt(Deref(p.FidelityType))>> ELSE <<>>)
    \o (IF p.Version = V3_0 THEN <<FormatBool(Deref(p.DidWin))>> ELSE <<>>)

RemoveAt(seq, i) == SubSeq(seq, 1, i - 1) \o SubSeq(seq, i + 1, Len(seq))

\* the items Verify joins for postback p, <<>> when it joins none
VerifyItemsOf(p) == Verify(rev, pubV3, p).items

\* C7: Postback canonicalization. For a postback of version 2.1, 2.2 or
\* 3.0 with the fields its version requires, the items are version,
\* ad-network id, campaign id, app id, transaction id, redownload, then the
\* source-app id exactly when present, then fidelity exactly for 2.2 and
\* 3.0, then the win flag exactly for 3.0. Without the source-app id the
\* sequence is the same with that one item left out.
C7_PostbackItems ==
    (IsPostbackVerify /\ last.in.Version \in SupportedVersions
                      /\ RequiredFieldsPresent(last.in)
                      /\ last.in.AttributionSignature.b64)
      => /\ last.out.items = Ref(ExpectedPostbackItems(last.in))
         /\ last.in.SourceAppID # NULL
              => VerifyItemsOf([last.in EXCEPT !.SourceAppID = NULL])
                   = Ref(RemoveAt(Deref(last.out.items), 7))

C7_Witness ==
    /\ IsPostbackVerify
    /\ last.in.Version = V3_0
    /\ last.in.SourceAppID = NULL
    /\ last.in.DidWin = Ref(FALSE)
    /\ last.out.ok
    /\ Len(Deref(last.out.items)) = 8

\* the last call got as far as the helper verify
ReachedVerify ==
    \/ IsSignerVerify
    \/ IsPostbackVerify /\ last.in.Version \in SupportedVersions /\ ~last.out.panic

\* C8: Error versus false. verify returns an error exactly when the
\* signature string is not valid base64, and then the boolean is false;
\* for valid base64 the error is nil whatever the bytes are. No
\* verification returns true together with an error.
C8_ErrorIffNotBase64 ==
    /\ ReachedVerify
         => /\ (last.out.err # ErrNil) <=> ~last.sig.b64
            /\ last.out.err # ErrNil => last.out.err = ErrSignatureDecode
            /\ ~last.out.panic
    /\ (IsSignerVerify \/ IsPostbackVerify)
         => ~(last.out.ok /\ last.out.err # ErrNil)

C8_Witness ==
    /\ IsSignerVerify
    /\ last.sig = Base64NotDER
    /\ ~last.out.ok
    /\ last.out.err = ErrNil

C8_WitnessDecodeError ==
    /\ IsPostbackVerify
    /\ ~last.sig.b64
    /\ last.out.err = ErrSignatureDecode

\* C9: Tamper sensitivity. Signer.Verify returns true only for a signature
\* that Sign produced over parameters with the same canonical message and
\* with the private key that matches the verifying public key. With
\* another canonical item, another signature or another key it returns
\* false and no error.
C9_TamperSensitivity ==
    IsSignerVerify
      => /\ last.out.ok
              => /\ held # NULL
                 /\ last.sig = Deref(held).sig
                 /\ Message(toItems(rev, Deref(held).p)) = Message(toItems(rev, last.in))
                 /\ PublicOf(Deref(held).by.D) = Deref(signer).PublicKey
         /\ (/\ last.sig.b64
             /\ \/ held = NULL
                \/ last.sig # Deref(held).sig
                \/ toItems(rev, Deref(held).p) # toItems(rev, last.in)
                \/ PublicOf(Deref(held).by.D) # Deref(signer).PublicKey)
              => ~last.out.ok /\ last.out.err = ErrNil

C9_Witness ==
    /\ IsSignerVerify
    /\ held # NULL
    /\ last.sig = Deref(held).sig
    /\ Deref(signer) = Deref(held).by
    /\ ValidKey(Deref(signer))
    /\ last.in # Deref(held).p
    /\ last.in.Timestamp # Deref(held).p.Timestamp
    /\ ~last.out.ok
    /\ last.out.err = ErrNil

\* C10: Authority key. Every postback verification checks the signature
\* against the package's authority key and never against a Signer's key,
\* Signer.Verify checks against the public key of its Signer, and after
\* any sequence of calls the authority key has its initial value.
C10_AuthorityKey ==
    /\ pubV3 = PublicOf(AuthorityD)
    /\ (IsPostbackVerify /\ last.out.key # <<>>)
         => /\ last.out.key = Ref(PublicOf(AuthorityD))
            /\ last.out.ok <=> last.sig = AuthoritySignature(last.in)
    /\ (IsSignerVerify /\ last.out.key # <<>>)
         => last.out.key = Ref(Deref(signer).PublicKey)

C10_Witness ==
    /\ IsPostbackVerify
    /\ signer # NULL
    /\ held # NULL
    /\ Deref(signer).D = 1
    /\ last.sig = ImpostorSignature(last.in)
    /\ last.out.key = Ref(pubV3)
    /\ ~last.out.ok

\* what the call of task t returns when it runs alone
Alone(t) ==
    CASE t.op = "Sign" -> Signer_Sign(rev, Deref(signer), t.p, t.k)
      [] t.op = "Signer.Verify" -> Signer_Verify(rev, Deref(signer), t.p, t.sig)
      [] OTHER -> Verify(rev, pubV3, t.p)

Returned(c) == c.pc = "done" \/ c.pc = "panic"

SharedResults ==
    calls # <<>>
      => \A g \in Goroutines : Returned(calls[g]) => calls[g].out = Alone(input[g])

\* C11: Shared Signer. Once NewSigner has returned, no step of a Sign or
\* Verify call changes the key of the Signer or the authority key, and in
\* every interleaving of the calls of the goroutines every call that ends
\* ends with what it returns when run alone; the steps take no lock.
C11_SharedSigner ==
    [][/\ signer # NULL => signer' = signer
       /\ pubV3' = pubV3
       /\ SharedResults']_vars

C11_Witness ==
    /\ calls # <<>>
    /\ \E g \in Goroutines, h \in Goroutines :
         /\ g # h
         /\ input[g].op = "Sign"
         /\ input[h].op = "Signer.Verify"
         /\ calls[g].pc = "done" /\ calls[g].overlapped
         /\ calls[h].pc = "done" /\ calls[h].overlapped
         /\ calls[h].out.ok

NeedsFidelity(p) == p.Version = V2_2 \/ p.Version = V3_0

\* the last call signed, or verified the held signature of, parameters of
\* version 2.2 or 3.0 built from a literal without fidelity
OnUnset == input.unset.FidelityType = NULL /\ NeedsFidelity(input.p)

\* the items of parameters p with the fidelity item "0"
ItemsWithZeroFidelity(p) ==
    << p.Version, p.AdNetworkID, FormatInt(p.CampaignID),
       FormatInt(p.ItunesItemID), UUIDString(p.Nonce),
       FormatInt(p.SourceAppStoreID), <<"0">>,
       FormatInt(UnixMilli(p.Timestamp)) >>

\* C12: Unset fidelity on signing. For parameters of version 2.2 or 3.0
\* whose fidelity was never set, canonicalization does not fail and the
\* fidelity item is "0": Sign signs the message of the same parameters
\* with fidelity view-through, a signature over either verifies for the
\* other, and it does not verify for the parameters with fidelity 1.
C12_UnsetFidelity ==
    OnUnset
      => /\ (last.op = "Sign" /\ last.in = input.p)
              => /\ last.out.err = ErrNil
                 /\ last.sig.bytes.h = hash(Message(ItemsWithZeroFidelity(input.unset)))
         /\ (IsSignerVerify /\ last.sig.b64 /\ last.in = input.p)
              => /\ last.out.err = ErrNil
                 /\ last.out.items = Ref(ItemsWithZeroFidelity(input.unset))
         /\ (/\ IsSignerVerify
             /\ held # NULL
             /\ last.sig = Deref(held).sig
             /\ Deref(signer) = Deref(held).by
             /\ ValidKey(Deref(signer))
             /\ {last.in, Deref(held).p} = {input.p, input.q})
              => (last.out.ok <=> input.f = ViewThroughAds)

C12_Witness ==
    /\ OnUnset
    /\ input.f = ViewThroughAds
    /\ IsSignerVerify
    /\ held # NULL
    /\ last.sig = Deref(held).sig
    /\ Deref(signer) = Deref(held).by
    /\ Deref(held).p = NewParams(input.unset)
    /\ last.in = NewParams([input.unset EXCEPT !.FidelityType = Ref(ViewThroughAds)])
    /\ Deref(last.out.items)[7] = <<"0">>
    /\ last.out.ok

\* C13: Self-consistent Signer. The public key of every Signer that
\* NewSigner returns is the one of its private key, so Signer.Verify of the
\* Signer's own signature returns true for every key text the loader
\* accepts, also when the public-key block belongs to another private key.
C13_SelfConsistent ==
    /\ signer # NULL => ValidKey(Deref(signer))
    /\ VerifiedOwnSignature => last.out.ok

HasSeparator(str) == \E i \in 1..Len(str) : <<str[i]>> = separator

\* the record of the pair that the last call was not given
OtherOf(x) == IF x = input.p THEN input.q ELSE input.p

\* the items the code joins for record x of the pair
PairItems(x) ==
    IF input.kind = "postback" THEN Deref(VerifyItemsOf(x)) ELSE toItems(rev, x)

SeparatorFree(x) ==
    /\ ~HasSeparator(x.Version)
    /\ ~HasSeparator(x.AdNetworkID)
    /\ input.kind = "postback" => ~HasSeparator(x.TransactionID)

\* the two records agree on the version and on every value that is signed
SignedFieldsAgree(x, y) ==
    /\ x.Version = y.Version
    /\ x.AdNetworkID = y.AdNetworkID
    /\ x.CampaignID = y.CampaignID
    /\ IF input.kind = "postback"
       THEN /\ x.AppID = y.AppID
            /\ x.TransactionID = y.TransactionID
            /\ x.Redownload = y.Redownload
            /\ x.SourceAppID = y.SourceAppID
            /\ NeedsFidelity(x) => x.FidelityType = y.FidelityType
            /\ x.Version = V3_0 => x.DidWin = y.DidWin
       ELSE /\ x.ItunesItemID = y.ItunesItemID
            /\ x.Nonce = y.Nonce
            /\ x.SourceAppStoreID = y.SourceAppStoreID
            /\ NeedsFidelity(x) => x.FidelityType = y.FidelityType
            /\ UnixMilli(x.Timestamp) = UnixMilli(y.Timestamp)

Canonicalized == (IsPostbackVerify \/ IsSignerVerify) /\ last.out.items # <<>>

\* C14: Canonical messages do not collide. For two postbacks of supported
\* versions, and for two parameter sets, whose string fields hold no
\* separator, the joined messages are equal only if the item sequences are
\* equal, hence only if the version, every signed value and the presence
\* of the source-app id agree. The code does not reject a field that holds
\* the separator: it canonicalizes the record like any other.
C14_NoCollision ==
    Canonicalized
      => /\ last.out.err = ErrNil
         /\ last.out.items = Ref(PairItems(last.in))
         /\ (/\ SeparatorFree(last.in)
             /\ SeparatorFree(OtherOf(last.in))
             /\ Message(Deref(last.out.items)) = Message(PairItems(OtherOf(last.in))))
              => /\ Deref(last.out.items) = PairItems(OtherOf(last.in))
                 /\ SignedFieldsAgree(last.in, OtherOf(last.in))

C14_Witness ==
    /\ Canonicalized
    /\ input.kind = "postback"
    /\ SeparatorFree(last.in)
    /\ SeparatorFree(OtherOf(last.in))
    /\ last.in # OtherOf(last.in)
    /\ Message(Deref(last.out.items)) = Message(PairItems(OtherOf(last.in)))

\* two records with the separator in a field and one message
C14_WitnessSeparator ==
    /\ Canonicalized
    /\ ~SeparatorFree(last.in)
    /\ Message(Deref(last.out.items)) = Message(PairItems(OtherOf(last.in)))
    /\ Deref(last.out.items) # PairItems(OtherOf(last.in))
    /\ last.out.err = ErrNil

\* the conversion values a postback may carry: none, or a 6-bit value
ConversionValues == Optional({0, 20, 63})

\* C15: Conversion value is outside the signed message. A postback and any
\* record that differs from it only in the conversion value (absent, or
\* present with any value) have the same canonical items, and Verify ends
\* the same way for both, with the same boolean and the same error; the
\* record Verify was given is the caller's record, unchanged.
C15_ConversionValueUnsigned ==
    IsPostbackVerify
      => /\ \A c \in ConversionValues :
               Verify(rev, pubV3, [last.in EXCEPT !.ConversionValue = c]) = last.out
         /\ last.in = input

C15_Witness ==
    /\ IsPostbackVerify
    /\ last.in.ConversionValue = Ref(20)
    /\ last.out.ok
    /\ Verify(rev, pubV3, [last.in EXCEPT !.ConversionValue = NULL]).ok

====
